---- MODULE Spec2Model ----
(***************************************************************************)
(* The in-memory event log and node registry of src/src/models.rs, called  *)
(* concurrently by request-handling threads.  Every method is split at the *)
(* points where other threads can come in between: the call (up to the     *)
(* point where the method waits for the store's mutex), the acquisition of *)
(* the mutex together with the work done under it, and the return, which   *)
(* drops the guard.                                                        *)
(***************************************************************************)
EXTENDS Integers, Sequences, FiniteSets, Bags, TLC

\* Bounds of the model: the number of calls made on one store alone
\* (SpecLog, SpecRegistry, SpecVerifier), the number of calls made on the
\* two stores together (Spec), and the largest timestamp.
MaxOps == 3
MaxAllOps == 2
MaxTime == 2
\* The number of calls of the runs that draw their arguments from a few
\* values only (SpecFew).
MaxFewOps == 4

Threads == {"t1", "t2"}
NoThread == "none"

EventIds == {"e1", "e2"}
NodeIds == {"n1", "n2"}
Signatures == {"sigA", "sigB"}
Timestamps == 1..MaxTime
QueryTimes == 0..MaxTime

\* models.rs:27 enum NodeStatus
NodeStatus == {"Active", "Inactive"}

\* models.rs:8 struct Event
Event ==
    [event_id : EventIds, timestamp : Timestamps, origin_id : {"n1"},
     event_type : {"join"}, payload : {"null"}, signature : Signatures]

\* models.rs:19 struct Node
Node == [node_id : NodeIds, last_active : Timestamps, status : NodeStatus]

VARIABLES
    events,       \* EventLog.events: the Vec<Event> behind the mutex
    events_lock,  \* the thread holding EventLog.events' mutex, or NoThread
    nodes,        \* NodeRegistry.nodes: the HashMap, as a set of (key, value) entries
    nodes_lock,   \* the thread holding NodeRegistry.nodes' mutex, or NoThread
    verifier,     \* the signatures verify_signature accepts
    pc,           \* where each thread is in the method it runs
    arg,          \* the method each thread runs (or ran last) and its argument
    ret,          \* what each thread's last call returned
    opsCount,     \* number of calls made so far
    budget,       \* number of calls the run makes at most
    evOps,        \* history: number of appends and snapshots the EventLog has done
    seen,         \* history: evOps when the thread's add_event verified its event
    regHist,      \* history: the registry after each of its writes
    mark,         \* history: log / registry version at a query's call and return
    submitted     \* history: the bag of events handed to add_event

vars ==
    <<events, events_lock, nodes, nodes_lock, verifier, pc, arg, ret, opsCount,
      budget, evOps, seen, regHist, mark, submitted>>

eventVars == <<events, events_lock, evOps>>
nodeVars == <<nodes, nodes_lock, regHist>>

----------------------------------------------------------------------------
(* Return values *)

Pending == [status |-> "pending", val |-> <<>>]
Ok == [status |-> "Ok", val |-> <<>>]
Err(msg) == [status |-> "Err", val |-> <<msg>>]
Unit == [status |-> "Unit", val |-> <<>>]
Vec(v) == [status |-> "Vec", val |-> v]

----------------------------------------------------------------------------
(* std::sync::Mutex *)

\* Faulty variant: a lock that never waits.
MutexAlwaysFree(m) == TRUE

\* Mutex::lock returns only when no thread holds the mutex.
MutexFree(m) == m = NoThread

----------------------------------------------------------------------------
(* EventLog *)

\* EventLog::new
EventLog_new == <<>>

\* Faulty variant: only one signature is accepted.
verify_signature_strict(event) == event.signature = "sigA"

\* verify_signature: the placeholder accepts every signature; `verifier` is
\* the set of signatures it accepts, all of them in Init.
verify_signature(event) == event.signature \in verifier

\* Faulty variant: the event is put in front of the log.
push_front(log, event) == <<event>> \o log

\* Faulty variant: an event whose event_id is already logged is dropped.
push_dedup(log, event) ==
    IF \E i \in DOMAIN log : log[i].event_id = event.event_id
    THEN log ELSE Append(log, event)

\* events.push(event)
push(log, event) == Append(log, event)

RECURSIVE collect_since(_, _, _, _)
\* events.iter().filter(|e| e.timestamp > timestamp).cloned().collect(),
\* element by element from index i on.
collect_since(log, timestamp, i, acc) ==
    IF i > Len(log) THEN acc
    ELSE collect_since(log, timestamp, i + 1,
                       IF log[i].timestamp > timestamp
                       THEN Append(acc, log[i]) ELSE acc)

RECURSIVE collect_before(_, _, _, _)
\* Faulty variant: the comparison is turned round (e.timestamp < timestamp).
collect_before(log, timestamp, i, acc) ==
    IF i > Len(log) THEN acc
    ELSE collect_before(log, timestamp, i + 1,
                        IF log[i].timestamp < timestamp
                        THEN Append(acc, log[i]) ELSE acc)

get_events_since_lt(log, timestamp) == collect_before(log, timestamp, 1, <<>>)

\* Faulty variant: the comparison is >= (an event at the bound is returned).
get_events_since_ge(log, timestamp) ==
    collect_since(log, timestamp - 1, 1, <<>>)

\* Faulty variant: the iteration stops one element early.
get_events_since_short(log, timestamp) ==
    collect_since(SubSeq(log, 1, Len(log) - 1), timestamp, 1, <<>>)

get_events_since(log, timestamp) == collect_since(log, timestamp, 1, <<>>)

----------------------------------------------------------------------------
(* NodeRegistry *)

\* NodeRegistry::new
NodeRegistry_new == {}

Entry(k, v) == [key |-> k, value |-> v]

\* Faulty variant: the entry of the key is kept beside the new one.
insert_keep(m, k, v) == m \cup {Entry(k, v)}

\* HashMap::insert: the entry of the key, if any, is replaced.
insert(m, k, v) == {e \in m : e.key # k} \cup {Entry(k, v)}

\* Faulty variant: the newer last_active of the stored node is kept.
register_node_merge(m, node) ==
    IF \E e \in m : e.key = node.node_id /\ e.value.last_active > node.last_active
    THEN LET old == CHOOSE e \in m : e.key = node.node_id
         IN  insert(m, node.node_id,
                    [node EXCEPT !.last_active = old.value.last_active])
    ELSE insert(m, node.node_id, node)

\* register_node: nodes.insert(node.node_id.clone(), node)
register_node(m, node) == insert(m, node.node_id, node)

\* Faulty variant: the node is removed instead of marked.
mark_node_inactive_remove(m, node_id) == {e \in m : e.key # node_id}

\* Faulty variant: a missing node is created, inactive.
mark_node_inactive_upsert(m, node_id) ==
    IF \E e \in m : e.key = node_id
    THEN {IF e.key = node_id
          THEN Entry(e.key, [e.value EXCEPT !.status = "Inactive"])
          ELSE e : e \in m}
    ELSE m \cup {Entry(node_id, [node_id |-> node_id, last_active |-> 1,
                                 status |-> "Inactive"])}

\* mark_node_inactive: if let Some(node) = nodes.get_mut(node_id)
\*                         { node.status = Inactive }
mark_node_inactive(m, node_id) ==
    {IF e.key = node_id
     THEN Entry(e.key, [e.value EXCEPT !.status = "Inactive"])
     ELSE e : e \in m}

\* The orders in which an iterator can visit the elements of S.
Orderings(S) ==
    {s \in [1..Cardinality(S) -> S] :
        \A i, j \in 1..Cardinality(S) : s[i] = s[j] => i = j}

RECURSIVE collect_active(_, _, _)
\* .filter(|n| n.status == NodeStatus::Active).cloned().collect() over the
\* entries in the order the map yields them.
collect_active(order, i, acc) ==
    IF i > Len(order) THEN acc
    ELSE collect_active(order, i + 1,
                        IF order[i].value.status = "Active"
                        THEN Append(acc, order[i].value) ELSE acc)

\* Faulty variant: the status is not looked at.
get_all_nodes(m) ==
    {[i \in DOMAIN o |-> o[i].value] : o \in Orderings(m)}

\* get_active_nodes: the vectors the call can return (the HashMap's
\* iteration order is unspecified).
get_active_nodes(m) == {collect_active(o, 1, <<>>) : o \in Orderings(m)}


----------------------------------------------------------------------------
(* Initial states *)

InitStores ==
    /\ events = EventLog_new
    /\ events_lock = NoThread
    /\ nodes = NodeRegistry_new
    /\ nodes_lock = NoThread
    /\ pc = [t \in Threads |-> "idle"]
    /\ arg = [t \in Threads |-> [op |-> "none"]]
    /\ ret = [t \in Threads |-> Pending]
    /\ opsCount = 0
    /\ evOps = 0
    /\ seen = [t \in Threads |-> 0]
    /\ regHist = <<NodeRegistry_new>>
    /\ mark = [t \in Threads |-> [inv |-> 0, ret |-> 0]]
    /\ submitted = EmptyBag

\* MasterServer::new with the verifier of the source: everything is accepted.
Init ==
    /\ InitStores
    /\ verifier = Signatures
    /\ budget = MaxAllOps

\* The same, for the runs that call one store only.
InitOneStore ==
    /\ InitStores
    /\ verifier = Signatures
    /\ budget = MaxOps

\* The same, for the longer runs with few argument values.
InitFew ==
    /\ InitStores
    /\ verifier = Signatures
    /\ budget = MaxFewOps

\* MasterServer::new with a verification predicate plugged in that rejects
\* some signature.
InitVerifier ==
    /\ InitStores
    /\ verifier \in (SUBSET Signatures) \ {Signatures}
    /\ budget = MaxOps

----------------------------------------------------------------------------
(* Calls.  A thread that is idle calls one method. *)

\* The thread's last call was of op and has returned.
Ran(t, op) == pc[t] = "idle" /\ arg[t].op = op

CanCall(t) == pc[t] = "idle" /\ opsCount < budget

Call(t, label, a) ==
    /\ CanCall(t)
    /\ pc' = [pc EXCEPT ![t] = label]
    /\ arg' = [arg EXCEPT ![t] = a]
    /\ opsCount' = opsCount + 1
    /\ UNCHANGED <<verifier, budget>>

\* What a step inside a method leaves alone.
Inside == UNCHANGED <<verifier, budget, arg, opsCount, submitted>>

\* Faulty variant: the outcome of the verification is ignored.
log_event_unchecked(t, event) ==
    /\ Call(t, "a_lock", [op |-> "add_event", event |-> event])
    /\ ret' = [ret EXCEPT ![t] = Pending]
    /\ seen' = [seen EXCEPT ![t] = evOps]
    /\ submitted' = submitted (+) SetToBag({event})
    /\ UNCHANGED <<eventVars, nodeVars, mark>>

\* MasterServer::log_event -> EventLog::add_event(event), lines 46-48: the
\* signature is verified before the mutex is asked for; an event that fails
\* is answered with the error at once.
log_event(t, event) ==
    /\ IF verify_signature(event)
       THEN /\ Call(t, "a_lock", [op |-> "add_event", event |-> event])
            /\ ret' = [ret EXCEPT ![t] = Pending]
       ELSE /\ Call(t, "idle", [op |-> "add_event", event |-> event])
            /\ ret' = [ret EXCEPT ![t] = Err("Invalid event signature")]
    /\ seen' = [seen EXCEPT ![t] = evOps]
    /\ submitted' = submitted (+) SetToBag({event})
    /\ UNCHANGED <<eventVars, nodeVars, mark>>

\* Faulty variant: the mutex is tried, and a call that finds it held gives
\* up and reports success.
add_event_try(t) ==
    /\ pc[t] = "a_lock"
    /\ IF MutexFree(events_lock)
       THEN /\ events_lock' = t
            /\ events' = push(events, arg[t].event)
            /\ evOps' = evOps + 1
            /\ pc' = [pc EXCEPT ![t] = "a_unlock"]
            /\ ret' = ret
       ELSE /\ UNCHANGED <<events_lock, events, evOps>>
            /\ pc' = [pc EXCEPT ![t] = "idle"]
            /\ ret' = [ret EXCEPT ![t] = Ok]
    /\ Inside
    /\ UNCHANGED <<nodeVars, seen, mark>>

\* Faulty variant: the vectors get_events_since handed out are views of the
\* log, so an append shows in those whose bound the event passes.
add_event_shared(t) ==
    /\ pc[t] = "a_lock"
    /\ MutexFree(events_lock)
    /\ events_lock' = t
    /\ events' = push(events, arg[t].event)
    /\ evOps' = evOps + 1
    /\ pc' = [pc EXCEPT ![t] = "a_unlock"]
    /\ ret' = [u \in Threads |->
                 IF /\ Ran(u, "get_events_since")
                    /\ ret[u].status = "Vec"
                    /\ arg[t].event.timestamp > arg[u].timestamp
                 THEN Vec(Append(ret[u].val, arg[t].event))
                 ELSE ret[u]]
    /\ Inside
    /\ UNCHANGED <<nodeVars, seen, mark>>

\* add_event, lines 50-51: self.events.lock(), then events.push(event)
add_event(t) ==
    /\ pc[t] = "a_lock"
    /\ MutexFree(events_lock)
    /\ events_lock' = t
    /\ events' = push(events, arg[t].event)
    /\ evOps' = evOps + 1
    /\ pc' = [pc EXCEPT ![t] = "a_unlock"]
    /\ Inside
    /\ UNCHANGED <<nodeVars, ret, seen, mark>>

\* Faulty variant: the guard is leaked, the mutex stays locked.
add_event_return_leak(t) ==
    /\ pc[t] = "a_unlock"
    /\ ret' = [ret EXCEPT ![t] = Ok]
    /\ pc' = [pc EXCEPT ![t] = "idle"]
    /\ Inside
    /\ UNCHANGED <<events, events_lock, evOps, nodeVars, seen, mark>>

\* add_event, lines 52-53: Ok(()) and the guard is dropped.
add_event_return(t) ==
    /\ pc[t] = "a_unlock"
    /\ events_lock' = NoThread
    /\ ret' = [ret EXCEPT ![t] = Ok]
    /\ pc' = [pc EXCEPT ![t] = "idle"]
    /\ Inside
    /\ UNCHANGED <<events, evOps, nodeVars, seen, mark>>

\* MasterServer::get_events_since -> EventLog::get_events_since(timestamp)
get_events_since_call(t, timestamp) ==
    /\ Call(t, "g_lock", [op |-> "get_events_since", timestamp |-> timestamp])
    /\ ret' = [ret EXCEPT ![t] = Pending]
    /\ mark' = [mark EXCEPT ![t] = [inv |-> Len(events), ret |-> Len(events)]]
    /\ UNCHANGED <<eventVars, nodeVars, seen, submitted>>

\* Faulty variant: the events are drained out of the log.
get_events_since_read_drain(t) ==
    /\ pc[t] = "g_lock"
    /\ MutexFree(events_lock)
    /\ events_lock' = t
    /\ ret' = [ret EXCEPT ![t] = Vec(get_events_since(events, arg[t].timestamp))]
    /\ events' = <<>>
    /\ evOps' = evOps + 1
    /\ pc' = [pc EXCEPT ![t] = "g_unlock"]
    /\ Inside
    /\ UNCHANGED <<nodeVars, seen, mark>>

\* get_events_since, lines 57-61: self.events.lock(), then the matching
\* events are copied out.
get_events_since_read(t) ==
    /\ pc[t] = "g_lock"
    /\ MutexFree(events_lock)
    /\ events_lock' = t
    /\ ret' = [ret EXCEPT ![t] = Vec(get_events_since(events, arg[t].timestamp))]
    /\ evOps' = evOps + 1
    /\ pc' = [pc EXCEPT ![t] = "g_unlock"]
    /\ Inside
    /\ UNCHANGED <<events, nodeVars, seen, mark>>

\* get_events_since, line 62: the guard is dropped and the vector returned.
get_events_since_return(t) ==
    /\ pc[t] = "g_unlock"
    /\ events_lock' = NoThread
    /\ mark' = [mark EXCEPT ![t].ret = Len(events)]
    /\ pc' = [pc EXCEPT ![t] = "idle"]
    /\ Inside
    /\ UNCHANGED <<events, evOps, nodeVars, ret, seen>>

\* MasterServer::register_node -> NodeRegistry::register_node(node)
register_node_call(t, node) ==
    /\ Call(t, "r_lock", [op |-> "register_node", node |-> node])
    /\ ret' = [ret EXCEPT ![t] = Pending]
    /\ UNCHANGED <<eventVars, nodeVars, seen, mark, submitted>>

\* Faulty variant: registering a node also logs a join event.
register_node_insert_logged(t) ==
    /\ pc[t] = "r_lock"
    /\ MutexFree(nodes_lock)
    /\ nodes_lock' = t
    /\ nodes' = register_node(nodes, arg[t].node)
    /\ regHist' = Append(regHist, nodes')
    /\ events' = push(events, [event_id |-> "e1",
                               timestamp |-> arg[t].node.last_active,
                               origin_id |-> "n1", event_type |-> "join",
                               payload |-> "null", signature |-> "sigA"])
    /\ pc' = [pc EXCEPT ![t] = "r_unlock"]
    /\ Inside
    /\ UNCHANGED <<events_lock, evOps, ret, seen, mark>>

\* register_node, lines 86-87: self.nodes.lock(), then nodes.insert(...)
register_node_insert(t) ==
    /\ pc[t] = "r_lock"
    /\ MutexFree(nodes_lock)
    /\ nodes_lock' = t
    /\ nodes' = register_node(nodes, arg[t].node)
    /\ regHist' = Append(regHist, nodes')
    /\ pc' = [pc EXCEPT ![t] = "r_unlock"]
    /\ Inside
    /\ UNCHANGED <<eventVars, ret, seen, mark>>

\* register_node, line 88: the guard is dropped.
register_node_return(t) ==
    /\ pc[t] = "r_unlock"
    /\ nodes_lock' = NoThread
    /\ ret' = [ret EXCEPT ![t] = Unit]
    /\ pc' = [pc EXCEPT ![t] = "idle"]
    /\ Inside
    /\ UNCHANGED <<eventVars, nodes, regHist, seen, mark>>

\* MasterServer::get_active_nodes -> NodeRegistry::get_active_nodes()
get_active_nodes_call(t) ==
    /\ Call(t, "n_lock", [op |-> "get_active_nodes"])
    /\ ret' = [ret EXCEPT ![t] = Pending]
    /\ mark' = [mark EXCEPT ![t] = [inv |-> Len(regHist), ret |-> Len(regHist)]]
    /\ UNCHANGED <<eventVars, nodeVars, seen, submitted>>

\* get_active_nodes, lines 92-96: self.nodes.lock(), then the active nodes
\* are copied out.
get_active_nodes_read(t) ==
    /\ pc[t] = "n_lock"
    /\ MutexFree(nodes_lock)
    /\ nodes_lock' = t
    /\ \E v \in get_active_nodes(nodes) : ret' = [ret EXCEPT ![t] = Vec(v)]
    /\ pc' = [pc EXCEPT ![t] = "n_unlock"]
    /\ Inside
    /\ UNCHANGED <<eventVars, nodes, regHist, seen, mark>>

\* get_active_nodes, line 97: the guard is dropped and the vector returned.
get_active_nodes_return(t) ==
    /\ pc[t] = "n_unlock"
    /\ nodes_lock' = NoThread
    /\ mark' = [mark EXCEPT ![t].ret = Len(regHist)]
    /\ pc' = [pc EXCEPT ![t] = "idle"]
    /\ Inside
    /\ UNCHANGED <<eventVars, nodes, regHist, ret, seen>>

\* NodeRegistry::mark_node_inactive(node_id)
mark_node_inactive_call(t, node_id) ==
    /\ Call(t, "m_lock", [op |-> "mark_node_inactive", node_id |-> node_id])
    /\ ret' = [ret EXCEPT ![t] = Pending]
    /\ UNCHANGED <<eventVars, nodeVars, seen, mark, submitted>>

\* mark_node_inactive, lines 101-104: self.nodes.lock(), then the status of
\* the node, if there is one, is set.
mark_node_inactive_set(t) ==
    /\ pc[t] = "m_lock"
    /\ MutexFree(nodes_lock)
    /\ nodes_lock' = t
    /\ nodes' = mark_node_inactive(nodes, arg[t].node_id)
    /\ regHist' = Append(regHist, nodes')
    /\ pc' = [pc EXCEPT ![t] = "m_unlock"]
    /\ Inside
    /\ UNCHANGED <<eventVars, ret, seen, mark>>

\* mark_node_inactive, line 105: the guard is dropped.
mark_node_inactive_return(t) ==
    /\ pc[t] = "m_unlock"
    /\ nodes_lock' = NoThread
    /\ ret' = [ret EXCEPT ![t] = Unit]
    /\ pc' = [pc EXCEPT ![t] = "idle"]
    /\ Inside
    /\ UNCHANGED <<eventVars, nodes, regHist, seen, mark>>

----------------------------------------------------------------------------
(* The request handlers of api.rs *)

\* The vector of a query once the handler has given it away.
Sent == [status |-> "Sent", val |-> <<>>]

\* get_events / get_nodes: the vector the facade returned is moved into the
\* response, HttpResponse::Ok().json(events), and dropped with it.
handler_respond(t) ==
    /\ pc[t] = "idle"
    /\ ret[t].status = "Vec"
    /\ ret' = [ret EXCEPT ![t] = Sent]
    /\ UNCHANGED <<eventVars, nodeVars, verifier, budget, pc, arg, opsCount,
                   seen, mark, submitted>>

----------------------------------------------------------------------------
(* Specifications *)

\* The calls on the EventLog.
NextLog ==
    \/ \E t \in Threads, event \in Event : log_event(t, event)
    \/ \E t \in Threads : add_event(t)
    \/ \E t \in Threads : add_event_return(t)
    \/ \E t \in Threads, timestamp \in QueryTimes : get_events_since_call(t, timestamp)
    \/ \E t \in Threads : get_events_since_read(t)
    \/ \E t \in Threads : get_events_since_return(t)

\* The calls on the NodeRegistry.
NextRegistry ==
    \/ \E t \in Threads, node \in Node : register_node_call(t, node)
    \/ \E t \in Threads : register_node_insert(t)
    \/ \E t \in Threads : register_node_return(t)
    \/ \E t \in Threads : get_active_nodes_call(t)
    \/ \E t \in Threads : get_active_nodes_read(t)
    \/ \E t \in Threads : get_active_nodes_return(t)
    \/ \E t \in Threads, node_id \in NodeIds : mark_node_inactive_call(t, node_id)
    \/ \E t \in Threads : mark_node_inactive_set(t)
    \/ \E t \in Threads : mark_node_inactive_return(t)

Next == NextLog \/ NextRegistry

\* Both stores behind the facade.
Spec == Init /\ [][Next]_vars

\* What the handlers do with the vectors they got.
NextHandlers == \E t \in Threads : handler_respond(t)

\* Both stores, and the handlers consuming what the queries returned.
SpecHandlers == Init /\ [][Next \/ NextHandlers]_vars

\* The arguments of the longer runs: two events that differ in their
\* event_id only, the query for everything, and one node in its two states.
FewEvents == {e \in Event : e.timestamp = 1 /\ e.signature = "sigA"}
FewNodes == {n \in Node : n.node_id = "n1" /\ n.last_active = 1}

NextFew ==
    \/ \E t \in Threads, event \in FewEvents : log_event(t, event)
    \/ \E t \in Threads : add_event(t)
    \/ \E t \in Threads : add_event_return(t)
    \/ \E t \in Threads : get_events_since_call(t, 0)
    \/ \E t \in Threads : get_events_since_read(t)
    \/ \E t \in Threads : get_events_since_return(t)
    \/ \E t \in Threads, node \in FewNodes : register_node_call(t, node)
    \/ \E t \in Threads : register_node_insert(t)
    \/ \E t \in Threads : register_node_return(t)
    \/ \E t \in Threads : get_active_nodes_call(t)
    \/ \E t \in Threads : get_active_nodes_read(t)
    \/ \E t \in Threads : get_active_nodes_return(t)

\* Both stores, more calls, few argument values.
SpecFew == InitFew /\ [][NextFew]_vars

\* The steps of a thread inside the method it has called.
Proceed(t) ==
    \/ add_event(t)
    \/ add_event_return(t)
    \/ get_events_since_read(t)
    \/ get_events_since_return(t)
    \/ register_node_insert(t)
    \/ register_node_return(t)
    \/ get_active_nodes_read(t)
    \/ get_active_nodes_return(t)
    \/ mark_node_inactive_set(t)
    \/ mark_node_inactive_return(t)

\* Both stores, with threads that are scheduled fairly: a thread that can
\* go on inside its method does so.
SpecFair == Init /\ [][Next]_vars /\ \A t \in Threads : WF_vars(Proceed(t))

\* One store alone, with more calls.
SpecLog == InitOneStore /\ [][NextLog]_vars

SpecRegistry == InitOneStore /\ [][NextRegistry]_vars

\* The EventLog with any verification predicate.
SpecVerifier == InitVerifier /\ [][NextLog]_vars

----------------------------------------------------------------------------
(* Vocabulary of the properties *)

Range(s) == {s[i] : i \in DOMAIN s}

CountIn(s, x) == Cardinality({i \in DOMAIN s : s[i] = x})

\* The positions of the log whose event is later than ts.
Matching(log, ts) == {i \in DOMAIN log : log[i].timestamp > ts}

\* The k-th of them, counted from the front of the log.
NthMatching(log, ts, k) ==
    CHOOSE i \in Matching(log, ts) :
        Cardinality({j \in Matching(log, ts) : j <= i}) = k

\* res holds exactly the events of log later than ts, in the order of log.
IsEventsSince(res, log, ts) ==
    /\ Len(res) = Cardinality(Matching(log, ts))
    /\ \A k \in DOMAIN res : res[k] = log[NthMatching(log, ts, k)]

\* The first k events of the log: the log as it was when it held k events.
LogPrefix(k) == SubSeq(events, 1, k)

\* The nodes of a registry whose status is Active.
ActiveSet(m) == {e.value : e \in {x \in m : x.value.status = "Active"}}

HasKey(m, k) == \E e \in m : e.key = k

\* The registry before the write of the thread that holds its mutex.
RegistryBefore == regHist[Len(regHist) - 1]


----------------------------------------------------------------------------
(* C1 *)

\* C1: whatever events were added, get_events_since(t) returns exactly the
\* logged events whose timestamp is strictly greater than t, in the order in
\* which they were added.  Stated of the vector a query has copied out while
\* it still holds the mutex, so that `events` is the log it read.
C1_EventsSinceExact ==
    \A t \in Threads :
        pc[t] = "g_unlock" =>
            IsEventsSince(ret[t].val, events, arg[t].timestamp)

\* A query returned two events that were added out of timestamp order.
C1_Witness ==
    \E t \in Threads :
        /\ pc[t] = "g_unlock"
        /\ Len(ret[t].val) = 2
        /\ ret[t].val[1].timestamp > ret[t].val[2].timestamp

----------------------------------------------------------------------------
(* C2 *)

\* C2: an add_event call whose verification fails returns the invalid
\* signature error and leaves the log as it was; no event that fails
\* verification is ever in the log.
C2_RejectedLeavesLog ==
    /\ [](\A i \in DOMAIN events : verify_signature(events[i]))
    /\ [][\A e \in Event :
            (submitted' = submitted (+) SetToBag({e}) /\ ~verify_signature(e))
            => /\ events' = events
               /\ \E t \in Threads :
                    /\ pc[t] = "idle" /\ pc'[t] = "idle"
                    /\ arg'[t] = [op |-> "add_event", event |-> e]
                    /\ ret'[t] = Err("Invalid event signature")]_vars

\* An event was rejected when the log already held two events, and the log
\* still holds just these two.
C2_Witness ==
    \E t \in Threads :
        /\ Ran(t, "add_event")
        /\ ret[t].status = "Err"
        /\ seen[t] = 2
        /\ Len(events) = 2

----------------------------------------------------------------------------
(* C3 *)

AddInFlight == \E t \in Threads : pc[t] \in {"a_lock", "a_unlock"}

\* C3: once all concurrent add_event calls have returned, each has
\* succeeded, the log is as long as the number of calls and holds every
\* submitted event as often as it was submitted.
C3_NoEventLost ==
    ~AddInFlight =>
        /\ Len(events) = BagCardinality(submitted)
        /\ \A e \in Event : CountIn(events, e) = CopiesIn(e, submitted)
        /\ \A t \in Threads : Ran(t, "add_event") => ret[t] = Ok

\* Two calls with distinct events, each verified before the other appended,
\* have both returned.
C3_Witness ==
    \E t1, t2 \in Threads :
        /\ t1 # t2
        /\ Ran(t1, "add_event") /\ Ran(t2, "add_event")
        /\ arg[t1].event # arg[t2].event
        /\ seen[t1] = seen[t2]
        /\ ret[t1] = Ok /\ ret[t2] = Ok
        /\ Len(events) = 2

----------------------------------------------------------------------------
(* C4 *)

\* C4: the log is append-only: whatever step is taken, the log before it is
\* a prefix of the log after it.
C4_AppendOnly ==
    [][/\ Len(events) <= Len(events')
       /\ SubSeq(events', 1, Len(events)) = events]_vars

\* A second, different event was appended behind a first.
C4_Witness ==
    /\ Len(events) = 2
    /\ events[1] # events[2]

----------------------------------------------------------------------------
(* C5 *)

\* C5 as stated: nothing takes effect on the EventLog between the
\* verification and the append of one add_event call, that is, the call's
\* own append is the only effect since it verified.
C5_VerifyAndAppendInOneSpan ==
    \A t \in Threads : pc[t] = "a_unlock" => evOps = seen[t] + 1

InEventSection(t) == pc[t] \in {"a_unlock", "g_unlock"}

\* C5 amended: the verification runs before the mutex is asked for; the
\* append alone runs under it.  The threads that have appended or copied and
\* not yet returned hold the mutex one at a time, and the appended event
\* stays the last of the log until its call drops the guard.
C5_AppendUnderLock ==
    /\ \A t \in Threads : pc[t] = "a_lock" => events_lock # t
    /\ \A t \in Threads : InEventSection(t) => events_lock = t
    /\ \A t1, t2 \in Threads : InEventSection(t1) /\ InEventSection(t2) => t1 = t2
    /\ \A t \in Threads : pc[t] = "a_unlock" => events[Len(events)] = arg[t].event

\* A call has appended under the mutex after another operation took effect
\* between its verification and its append.
C5_Witness ==
    \E t \in Threads :
        /\ pc[t] = "a_unlock"
        /\ evOps > seen[t] + 1
        /\ events_lock = t

----------------------------------------------------------------------------
(* C6 *)

EventsAfter(log, ts) == SelectSeq(log, LAMBDA e : e.timestamp > ts)

\* C6: what a query returned is the answer on a state its store was in at
\* some instant between the query's call and its return.
C6_ReadsSeeOneState ==
    \A t \in Threads :
        /\ Ran(t, "get_events_since") =>
              \E k \in mark[t].inv..mark[t].ret :
                  ret[t].val = EventsAfter(LogPrefix(k), arg[t].timestamp)
        /\ Ran(t, "get_active_nodes") =>
              \E k \in mark[t].inv..mark[t].ret :
                  /\ Range(ret[t].val) = ActiveSet(regHist[k])
                  /\ Len(ret[t].val) = Cardinality(ActiveSet(regHist[k]))

\* A query called on the empty log returned an event appended while it waited.
C6_Witness ==
    \E t \in Threads :
        /\ Ran(t, "get_events_since")
        /\ mark[t].inv = 0
        /\ Len(ret[t].val) = 1

----------------------------------------------------------------------------
(* C7 *)

\* C7: the registry holds at most one node per node_id, under that id, and
\* once register_node has inserted, the entry of the id is the node of the
\* call, whatever was there before.
C7_LastWriteWins ==
    /\ \A e1, e2 \in nodes : e1.key = e2.key => e1 = e2
    /\ \A e \in nodes : e.value.node_id = e.key
    /\ \A t \in Threads :
          pc[t] = "r_unlock" =>
              {e \in nodes : e.key = arg[t].node.node_id}
                  = {Entry(arg[t].node.node_id, arg[t].node)}

\* A node was registered over an entry with a newer last_active and another
\* status.
C7_Witness ==
    \E t \in Threads :
        /\ pc[t] = "r_unlock"
        /\ \E old \in RegistryBefore :
              /\ old.key = arg[t].node.node_id
              /\ old.value.last_active > arg[t].node.last_active
              /\ old.value.status # arg[t].node.status

----------------------------------------------------------------------------
(* C8 *)

\* C8: get_active_nodes returns exactly the stored nodes whose status is
\* Active, in some order.
C8_ActiveExactly ==
    \A t \in Threads :
        pc[t] = "n_unlock" =>
            /\ Range(ret[t].val) = ActiveSet(nodes)
            /\ \A i \in DOMAIN ret[t].val : ret[t].val[i].status # "Inactive"

\* A query on a registry with an active and an inactive node returned one.
C8_Witness ==
    \E t \in Threads :
        /\ pc[t] = "n_unlock"
        /\ Len(ret[t].val) = 1
        /\ \E e \in nodes : e.value.status = "Inactive"

----------------------------------------------------------------------------
(* C9 *)

\* C9: mark_node_inactive on a present node sets its status to Inactive and
\* nothing else: the entry keeps its node_id and last_active, the other
\* entries stay, and no vector get_active_nodes can return holds the node.
C9_MarkInactiveFrame ==
    \A t \in Threads :
        (pc[t] = "m_unlock" /\ HasKey(RegistryBefore, arg[t].node_id)) =>
            \E old \in RegistryBefore :
                /\ old.key = arg[t].node_id
                /\ nodes = (RegistryBefore \ {old}) \cup
                       {Entry(old.key,
                              [node_id |-> old.value.node_id,
                               last_active |-> old.value.last_active,
                               status |-> "Inactive"])}
                /\ \A v \in get_active_nodes(nodes) :
                       \A i \in DOMAIN v : v[i].node_id # arg[t].node_id

\* An active node was marked inactive beside another active node.
C9_Witness ==
    \E t \in Threads :
        /\ pc[t] = "m_unlock"
        /\ \E old, other \in RegistryBefore :
              /\ old.key = arg[t].node_id
              /\ old.value.status = "Active"
              /\ other.key # old.key
              /\ other.value.status = "Active"

----------------------------------------------------------------------------
(* C10 *)

\* C10: mark_node_inactive on an id that is not in the registry leaves the
\* registry as it was, without an entry for the id, and returns normally.
C10_MarkAbsentNoOp ==
    /\ \A t \in Threads :
          (pc[t] = "m_unlock" /\ ~HasKey(RegistryBefore, arg[t].node_id)) =>
              /\ nodes = RegistryBefore
              /\ ~HasKey(nodes, arg[t].node_id)
    /\ \A t \in Threads : Ran(t, "mark_node_inactive") => ret[t] = Unit

\* An id that was never registered was marked in a registry that holds
\* another node.
C10_Witness ==
    \E t \in Threads :
        /\ pc[t] = "m_unlock"
        /\ ~HasKey(RegistryBefore, arg[t].node_id)
        /\ RegistryBefore # {}

----------------------------------------------------------------------------
(* C11 *)

LogOps == {"add_event", "get_events_since"}
RegistryOps == {"register_node", "get_active_nodes", "mark_node_inactive"}

\* C11: a facade call is one call of one store, whose result it returns
\* unchanged: the thread of a log_event or get_events_since never holds the
\* registry's mutex and none of its steps touches the registry, the thread of
\* a register_node or get_active_nodes never holds the log's mutex and none
\* of its steps touches the log, and the vector a query copied out is the
\* vector the call returns.
C11_OneStorePerCall ==
    /\ [](\A t \in Threads :
            /\ events_lock = t => arg[t].op \in LogOps
            /\ nodes_lock = t => arg[t].op \in RegistryOps)
    /\ [][\A t \in Threads :
            pc'[t] # pc[t] =>
                /\ arg'[t].op \in {"add_event", "get_events_since"}
                      => UNCHANGED <<nodes, nodes_lock>>
                /\ arg'[t].op \in {"register_node", "get_active_nodes"}
                      => UNCHANGED <<events, events_lock>>
                /\ pc[t] \in {"g_unlock", "n_unlock"} => ret'[t] = ret[t]]_vars

\* A log_event and a register_node have both returned.
C11_Witness ==
    \E t1, t2 \in Threads :
        /\ Ran(t1, "add_event") /\ ret[t1] = Ok
        /\ Ran(t2, "register_node") /\ ret[t2] = Unit
        /\ Len(events) = 1
        /\ nodes # {}

----------------------------------------------------------------------------
(* C12 *)

\* C12: with the verifier of the source no call fails: every add_event
\* returns Ok with its event in the log, register_node and
\* mark_node_inactive return (), the queries return a vector; an error, if
\* there were one, could only be the invalid signature of an add_event.
C12_NoCallFails ==
    \A t \in Threads :
        (pc[t] = "idle" /\ arg[t].op # "none") =>
            /\ ret[t].status = "Err" =>
                  /\ arg[t].op = "add_event"
                  /\ ret[t] = Err("Invalid event signature")
            /\ arg[t].op = "add_event" =>
                  /\ ret[t] = Ok
                  /\ \E i \in DOMAIN events : events[i] = arg[t].event
            /\ arg[t].op \in {"register_node", "mark_node_inactive"} =>
                  ret[t] = Unit
            /\ arg[t].op \in {"get_events_since", "get_active_nodes"} =>
                  ret[t].status = "Vec"

\* An event with the second signature was accepted, and marking a node that
\* is not there returned normally.
C12_Witness ==
    \E t1, t2 \in Threads :
        /\ Ran(t1, "add_event")
        /\ arg[t1].event.signature = "sigB"
        /\ ret[t1] = Ok
        /\ Ran(t2, "mark_node_inactive")
        /\ ret[t2] = Unit
        /\ nodes = {}

----------------------------------------------------------------------------
(* C13 *)

\* The positions of a sequence of events that carry the event_id.
WithId(s, id) == {i \in DOMAIN s : s[i].event_id = id}

\* C13: add_event does not look at event_id: an event whose event_id is
\* already in the log is appended as one more entry and the call returns
\* Ok, and get_events_since returns as many entries of an event_id as the
\* log holds with a timestamp later than the bound.
C13_DuplicateIdsAccepted ==
    /\ [](\A t \in Threads : Ran(t, "add_event") => ret[t] = Ok)
    /\ [](\A t \in Threads :
            pc[t] = "g_unlock" =>
                \A id \in EventIds :
                    Cardinality(WithId(ret[t].val, id)) =
                        Cardinality(WithId(events, id)
                                    \cap Matching(events, arg[t].timestamp)))
    /\ [][\A t \in Threads :
            (/\ pc[t] = "a_lock" /\ pc'[t] = "a_unlock"
             /\ WithId(events, arg[t].event.event_id) # {})
            => /\ Len(events') = Len(events) + 1
               /\ events' = Append(events, arg[t].event)]_vars

\* A query returned two different entries with the same event_id.
C13_Witness ==
    \E t \in Threads :
        /\ pc[t] = "g_unlock"
        /\ Len(ret[t].val) = 2
        /\ ret[t].val[1].event_id = ret[t].val[2].event_id
        /\ ret[t].val[1] # ret[t].val[2]

----------------------------------------------------------------------------
(* C14 *)

\* C14: what a query returned is a copy: no step that changes the log or
\* the registry changes a vector that was returned, and no step that changes
\* a returned vector in the hands of its caller changes the log or the
\* registry.
C14_ReturnedVectorsAreCopies ==
    [][\A t \in Threads :
          (pc[t] = "idle" /\ ret[t].status = "Vec") =>
              /\ (events' # events \/ nodes' # nodes) => ret'[t] = ret[t]
              /\ (ret'[t] # ret[t] /\ pc'[t] = "idle")
                    => UNCHANGED <<events, nodes>>]_vars

\* A query returned the one event of the log, its caller has used the vector
\* up, and the log still holds the event.
C14_Witness ==
    \E t \in Threads :
        /\ Ran(t, "get_events_since")
        /\ ret[t] = Sent
        /\ mark[t].ret = 1
        /\ Len(events) = 1
        /\ events[1].timestamp > arg[t].timestamp

----------------------------------------------------------------------------
(* C15 *)

\* The place of x in s, for an x that s holds once.
Pos(s, x) == CHOOSE i \in DOMAIN s : s[i] = x

\* Two sequences hold the events that each of them holds once in the same
\* relative order.
SameOrder(r1, r2) ==
    \A x, y \in Range(r1) \cap Range(r2) :
        (/\ CountIn(r1, x) = 1 /\ CountIn(r1, y) = 1
         /\ CountIn(r2, x) = 1 /\ CountIn(r2, y) = 1)
        => (Pos(r1, x) < Pos(r1, y) <=> Pos(r2, x) < Pos(r2, y))

HasEvents(t) == arg[t].op = "get_events_since" /\ ret[t].status = "Vec"

\* C15: an add_event that takes the mutex puts its event behind the events
\* of all that took it before, so the log is in the order of the
\* acquisitions; every query reports its events in the order of the log, and
\* no two queries report two events in opposite orders.
C15_LockOrderIsLogOrder ==
    /\ [](\A t \in Threads : HasEvents(t) => SameOrder(ret[t].val, events))
    /\ [](\A t1, t2 \in Threads :
            (HasEvents(t1) /\ HasEvents(t2))
            => SameOrder(ret[t1].val, ret[t2].val))
    /\ [][\A t \in Threads :
            (events_lock # t /\ events_lock' = t /\ arg[t].op = "add_event")
            => events' = events \o <<arg[t].event>>]_vars

\* Two threads each submitted an event before either was appended, and then
\* each of them got the two events from a query, in the same order.
C15_Witness ==
    \E t1, t2 \in Threads :
        /\ t1 # t2
        /\ Ran(t1, "get_events_since") /\ Ran(t2, "get_events_since")
        /\ seen[t1] = 0 /\ seen[t2] = 0
        /\ Len(events) = 2
        /\ events[1] # events[2]
        /\ ret[t1].val = events
        /\ ret[t2].val = events

----------------------------------------------------------------------------
(* C16 *)

WaitsForLog(t) == pc[t] \in {"a_lock", "g_lock"}
WaitsForRegistry(t) == pc[t] \in {"r_lock", "n_lock", "m_lock"}
InRegistrySection(t) == pc[t] \in {"r_unlock", "n_unlock", "m_unlock"}

\* C16: a thread holds a store's mutex exactly from its acquisition to the
\* return of the call, never the two mutexes at once; a waiting EventLog
\* call can go on as soon as the EventLog mutex is free whatever the state
\* of the registry's, and the other way round; and with fair scheduling
\* every call returns.
C16_EveryCallReturns ==
    /\ [](\A t \in Threads :
            /\ events_lock = t <=> InEventSection(t)
            /\ nodes_lock = t <=> InRegistrySection(t)
            /\ ~(events_lock = t /\ nodes_lock = t)
            /\ (WaitsForLog(t) /\ events_lock = NoThread) => ENABLED Proceed(t)
            /\ (WaitsForRegistry(t) /\ nodes_lock = NoThread) => ENABLED Proceed(t)
            /\ (InEventSection(t) \/ InRegistrySection(t)) => ENABLED Proceed(t))
    /\ \A t \in Threads : (pc[t] # "idle") ~> (pc[t] = "idle")

\* A query waits for the EventLog mutex that an add_event holds.
C16_Witness ==
    \E t1, t2 \in Threads :
        /\ pc[t1] = "g_lock"
        /\ pc[t2] = "a_unlock"
        /\ events_lock = t2

----------------------------------------------------------------------------
(* C17 *)

Absent == [absent |-> TRUE]

\* A registry as the function from node_id to the node stored, if any.
AsFunction(m) ==
    [id \in NodeIds |->
        IF HasKey(m, id) THEN (CHOOSE e \in m : e.key = id).value ELSE Absent]

\* What a write call makes of a registry when it runs alone.
SerialApply(f, call) ==
    CASE call.op = "register_node" ->
            [f EXCEPT ![call.node.node_id] = call.node]
      [] call.op = "mark_node_inactive" ->
            IF f[call.node_id] = Absent THEN f
            ELSE [f EXCEPT ![call.node_id].status = "Inactive"]
      [] OTHER -> f

WriteCalls ==
    [op : {"register_node"}, node : Node]
        \cup [op : {"mark_node_inactive"}, node_id : NodeIds]

OneEntryPerId(m) == \A id \in NodeIds : Cardinality({e \in m : e.key = id}) <= 1

\* C17: the writes of the registry are serialized by its mutex: the registry
\* is the outcome of its last write, each write made of the registry before
\* it what the call makes when it runs alone (for the write of the thread
\* that holds the mutex: what that thread's call makes), and every version
\* holds one entry per id at most.
C17_WritesSerialized ==
    /\ nodes = regHist[Len(regHist)]
    /\ \A k \in DOMAIN regHist : OneEntryPerId(regHist[k])
    /\ \A k \in 1..(Len(regHist) - 1) :
          \E call \in WriteCalls :
              AsFunction(regHist[k + 1]) = SerialApply(AsFunction(regHist[k]), call)
    /\ \A t \in Threads :
          pc[t] \in {"r_unlock", "m_unlock"} =>
              AsFunction(nodes) = SerialApply(AsFunction(RegistryBefore), arg[t])

\* A register_node has written over another entry of its node_id while a
\* mark_node_inactive of the same node_id waits for the mutex.
C17_Witness ==
    \E t1, t2 \in Threads :
        /\ pc[t1] = "r_unlock"
        /\ pc[t2] = "m_lock"
        /\ arg[t2].node_id = arg[t1].node.node_id
        /\ \E old \in RegistryBefore :
              /\ old.key = arg[t1].node.node_id
              /\ old.value.last_active # arg[t1].node.last_active
              /\ old.value.status # arg[t1].node.status

----------------------------------------------------------------------------
(* C18 *)

QueryOps == {"get_events_since", "get_active_nodes"}

\* C18: no step of a query changes the log or the registry, and two queries
\* that read the same version of their store (no write between them) with
\* the same argument return the same events in the same order, respectively
\* the same set of nodes.
C18_QueriesReadOnly ==
    /\ [](\A t1, t2 \in Threads :
            /\ (/\ Ran(t1, "get_events_since") /\ Ran(t2, "get_events_since")
                /\ ret[t1].status = "Vec" /\ ret[t2].status = "Vec"
                /\ arg[t1].timestamp = arg[t2].timestamp
                /\ mark[t1].ret = mark[t2].ret)
               => ret[t1].val = ret[t2].val
            /\ (/\ Ran(t1, "get_active_nodes") /\ Ran(t2, "get_active_nodes")
                /\ ret[t1].status = "Vec" /\ ret[t2].status = "Vec"
                /\ mark[t1].ret = mark[t2].ret)
               => Range(ret[t1].val) = Range(ret[t2].val))
    /\ [][\A t \in Threads :
            (pc'[t] # pc[t] /\ arg'[t].op \in QueryOps)
            => UNCHANGED <<events, nodes, regHist>>]_vars

\* Two queries on a log of two events, with no append between them, returned
\* the same two events.
C18_Witness ==
    \E t1, t2 \in Threads :
        /\ t1 # t2
        /\ Ran(t1, "get_events_since") /\ Ran(t2, "get_events_since")
        /\ mark[t1].ret = 2 /\ mark[t2].ret = 2
        /\ Len(ret[t1].val) = 2
        /\ ret[t1].val = ret[t2].val
        /\ events = ret[t1].val

----------------------------------------------------------------------------
(* C19 *)

Keys(m) == {e.key : e \in m}

StatusOf(m, id) == AsFunction(m)[id].status

\* C19: no step removes an entry of the registry; a key appears only by the
\* register_node of its id; the status of a stored node changes only in the
\* insert of a register_node of its id, to the status of that call, or in
\* the step of a mark_node_inactive of its id, to Inactive.  Of the calls the
\* facade has, register_node with status Inactive is thus the only one that
\* makes a node inactive.
C19_EntriesStay ==
    [][/\ Keys(nodes) \subseteq Keys(nodes')
       /\ \A id \in Keys(nodes') \ Keys(nodes) :
             \E t \in Threads :
                 /\ pc[t] = "r_lock" /\ pc'[t] = "r_unlock"
                 /\ arg[t].node.node_id = id
       /\ \A id \in Keys(nodes) :
             StatusOf(nodes', id) # StatusOf(nodes, id) =>
                 \E t \in Threads :
                     \/ /\ pc[t] = "r_lock" /\ pc'[t] = "r_unlock"
                        /\ arg[t].node.node_id = id
                        /\ StatusOf(nodes', id) = arg[t].node.status
                     \/ /\ pc[t] = "m_lock" /\ pc'[t] = "m_unlock"
                        /\ arg[t].node_id = id
                        /\ StatusOf(nodes', id) = "Inactive"]_vars

\* A node that was registered active and then marked inactive has been
\* registered active again.
C19_Witness ==
    \E t \in Threads :
        /\ pc[t] = "r_unlock"
        /\ Len(regHist) = 4
        /\ HasKey(regHist[2], arg[t].node.node_id)
        /\ StatusOf(regHist[2], arg[t].node.node_id) = "Active"
        /\ StatusOf(regHist[3], arg[t].node.node_id) = "Inactive"
        /\ StatusOf(nodes, arg[t].node.node_id) = "Active"

----------------------------------------------------------------------------
(* C20 *)

RECURSIVE IsSubseqFrom(_, _, _, _)
\* a from its i-th element on can be found, in order, in b from its j-th on.
IsSubseqFrom(a, i, b, j) ==
    IF i > Len(a) THEN TRUE
    ELSE IF j > Len(b) THEN FALSE
    ELSE IF a[i] = b[j] THEN IsSubseqFrom(a, i + 1, b, j + 1)
    ELSE IsSubseqFrom(a, i, b, j + 1)

IsSubseq(a, b) == IsSubseqFrom(a, 1, b, 1)

\* C20: on every log, the answer for a later bound is a subsequence of the
\* answer for an earlier bound, and the answer for a bound below all the
\* timestamps of the log is the log.
C20_MonotoneInBound ==
    LET since == [ts \in QueryTimes |-> get_events_since(events, ts)] IN
    /\ \A t1, t2 \in QueryTimes :
          t1 <= t2 => IsSubseq(since[t2], since[t1])
    /\ \A ts \in QueryTimes :
          (\A i \in DOMAIN events : events[i].timestamp > ts) =>
              since[ts] = events

\* A log of two events whose answer for bound 1 is its second event alone,
\* and whose answer for bound 0 is the log.
C20_Witness ==
    /\ Len(events) = 2
    /\ events[1].timestamp = 1
    /\ events[2].timestamp = 2
    /\ get_events_since(events, 1) = <<events[2]>>
    /\ get_events_since(events, 0) = events

====
